---- MODULE Spec2Model ----
(***************************************************************************)
(* Model of the Chutes image proxy (src/server.py): the path parser of the *)
(* /prompt/<path> route, the cache key, the file cache, the model registry *)
(* and the request handler generate_image with its upstream call.          *)
(*                                                                         *)
(* Text is modelled as a sequence of one-character strings, so that        *)
(* strip, split, replace, isdigit, int and the f-string formatting are     *)
(* computed character by character as Python computes them.                *)
(***************************************************************************)
EXTENDS Integers, Sequences, FiniteSets, TLC

VARIABLES
    config,     \* the config dict handed to start_server
    cache,      \* the files of CACHE_DIR: file name -> content (bytes)
    pc,         \* position of each request inside generate_image
    rq,         \* per request: path, parsed fields, cache file name, config seen
    up,         \* per request: the upstream exchange (calls issued, reply)
    resp,       \* per request: the HTTP response returned to the caller
    ppath,      \* parser harness: the path given to the route
    presult,    \* parser harness: what the parsing lines computed
    tcache,     \* cache harness: CACHE_DIR before/after put
    tkey,       \* cache harness: file name
    tdata,      \* cache harness: bytes
    tres,       \* cache harness: outcome of get after put
    mname,      \* model harness: the model name typed into the menu
    mtext,      \* model harness: the example request pasted for an unknown model
    mcfg,       \* model harness: the config dict the menu works on
    mreq,       \* model harness: the fields of the request to generate
    mres        \* model harness: lookups, inferred metadata, URL and payload

gvars == <<config, cache, pc, rq, up, resp>>
pvars == <<ppath, presult>>
cvars == <<tcache, tkey, tdata, tres>>
mvars == <<mname, mtext, mcfg, mreq, mres>>
vars == <<config, cache, pc, rq, up, resp, ppath, presult, tcache, tkey, tdata, tres,
          mname, mtext, mcfg, mreq, mres>>

\* Python's None where a dict is expected: a dict with no key of a real one
None == [none |-> TRUE]

(***************************************************************************)
(* Python str operations                                                   *)
(***************************************************************************)

Digits == {"0", "1", "2", "3", "4", "5", "6", "7", "8", "9"}

\* str.isspace on one character (the ASCII whitespace of the modelled text)
IsSpace(c) == c \in {" ", "\t", "\n"}

\* value of one decimal digit
DigitVal(c) ==
    CASE c = "0" -> 0 [] c = "1" -> 1 [] c = "2" -> 2 [] c = "3" -> 3
      [] c = "4" -> 4 [] c = "5" -> 5 [] c = "6" -> 6 [] c = "7" -> 7
      [] c = "8" -> 8 [] c = "9" -> 9

DigitChar(d) == <<"0", "1", "2", "3", "4", "5", "6", "7", "8", "9">>[d + 1]

\* str.lower on one character
LowerChar(c) ==
    CASE c = "A" -> "a" [] c = "B" -> "b" [] c = "C" -> "c" [] c = "D" -> "d"
      [] c = "E" -> "e" [] c = "F" -> "f" [] c = "G" -> "g" [] c = "H" -> "h"
      [] c = "I" -> "i" [] c = "J" -> "j" [] c = "K" -> "k" [] c = "L" -> "l"
      [] c = "M" -> "m" [] c = "N" -> "n" [] c = "O" -> "o" [] c = "P" -> "p"
      [] c = "Q" -> "q" [] c = "R" -> "r" [] c = "S" -> "s" [] c = "T" -> "t"
      [] c = "U" -> "u" [] c = "V" -> "v" [] c = "W" -> "w" [] c = "X" -> "x"
      [] c = "Y" -> "y" [] c = "Z" -> "z" [] OTHER -> c

\* s.lower()
Lower(s) == [i \in 1..Len(s) |-> LowerChar(s[i])]

\* c in s
Contains(s, c) == \E i \in 1..Len(s) : s[i] = c

\* s.replace(c, '')
RECURSIVE Remove(_, _)
Remove(s, c) ==
    IF s = <<>> THEN <<>>
    ELSE IF Head(s) = c THEN Remove(Tail(s), c)
    ELSE <<Head(s)>> \o Remove(Tail(s), c)

\* s.isdigit(): non-empty and every character a digit
IsDigit(s) == s # <<>> /\ \A i \in 1..Len(s) : s[i] \in Digits

RECURSIVE LStrip(_)
LStrip(s) == IF s # <<>> /\ IsSpace(Head(s)) THEN LStrip(Tail(s)) ELSE s

RECURSIVE RStrip(_)
RStrip(s) ==
    IF s # <<>> /\ IsSpace(s[Len(s)]) THEN RStrip(SubSeq(s, 1, Len(s) - 1)) ELSE s

\* s.strip()
Strip(s) == RStrip(LStrip(s))

\* s.split(c): the pieces between the occurrences of c, one more than occurrences
RECURSIVE SplitFrom(_, _, _)
SplitFrom(s, c, cur) ==
    IF s = <<>> THEN <<cur>>
    ELSE IF Head(s) = c THEN <<cur>> \o SplitFrom(Tail(s), c, <<>>)
    ELSE SplitFrom(Tail(s), c, Append(cur, Head(s)))

Split(s, c) == SplitFrom(s, c, <<>>)

\* value of a string of decimal digits
RECURSIVE DecimalOf(_)
DecimalOf(s) ==
    IF s = <<>> THEN 0
    ELSE 10 * DecimalOf(SubSeq(s, 1, Len(s) - 1)) + DigitVal(s[Len(s)])

\* int(s) succeeds on decimal digits with an optional sign in front
IntOk(s) ==
    IF s # <<>> /\ Head(s) \in {"-", "+"} THEN IsDigit(Tail(s)) ELSE IsDigit(s)

\* int(s) for such a string
IntOf(s) ==
    IF Head(s) = "-" THEN 0 - DecimalOf(Tail(s))
    ELSE IF Head(s) = "+" THEN DecimalOf(Tail(s))
    ELSE DecimalOf(s)

\* str(n) / f"{n}" for a non-negative integer
RECURSIVE IntStr(_)
IntStr(n) == IF n < 10 THEN <<DigitChar(n)>> ELSE IntStr(n \div 10) \o <<DigitChar(n % 10)>>

\* value of one hexadecimal digit, -1 when c is none
HexVal(c) ==
    IF c \in Digits THEN DigitVal(c)
    ELSE CASE LowerChar(c) = "a" -> 10 [] LowerChar(c) = "b" -> 11
           [] LowerChar(c) = "c" -> 12 [] LowerChar(c) = "d" -> 13
           [] LowerChar(c) = "e" -> 14 [] LowerChar(c) = "f" -> 15
           [] OTHER -> -1

\* the character of a code point, for the code points of the modelled text;
\* any other code point decodes to a character outside that text
Chr(n) ==
    CASE n = 32 -> " " [] n = 37 -> "%" [] n = 45 -> "-" [] n = 47 -> "/"
      [] n = 48 -> "0" [] n = 49 -> "1" [] n = 50 -> "2"
      [] n = 88 -> "X" [] n = 97 -> "a" [] n = 98 -> "b" [] n = 120 -> "x"
      [] n = 124 -> "|" [] OTHER -> "?"

\* urllib.parse.unquote: %HH becomes the character, a malformed escape stays
RECURSIVE unquote(_)
unquote(s) ==
    IF s = <<>> THEN <<>>
    ELSE IF /\ Head(s) = "%"
            /\ Len(s) >= 3
            /\ HexVal(s[2]) >= 0
            /\ HexVal(s[3]) >= 0
         THEN <<Chr(16 * HexVal(s[2]) + HexVal(s[3]))>> \o unquote(SubSeq(s, 4, Len(s)))
         ELSE <<Head(s)>> \o unquote(Tail(s))

(***************************************************************************)
(* generate_image, lines 430-461: the path parser                          *)
(***************************************************************************)

DefaultWidth == 1024
DefaultHeight == 1024

\* lines 460-461: the part becomes the negative prompt unless one is set
NegativeCandidate(st, part) ==
    IF st.negative_prompt = <<>> THEN [st EXCEPT !.negative_prompt = part] ELSE st

\* line 449 without the isdigit test
ContainsX(part) == Contains(part, "x")

\* line 449: 'x' in part and part.replace('x','').isdigit()
LooksLikeResolution(part) == Contains(part, "x") /\ IsDigit(Remove(part, "x"))

\* lines 450-456: w, h = part.lower().split('x'); width = int(w); height = int(h)
\* Each statement takes effect before the next one can raise; the bare except
\* swallows the error and the part falls through to lines 460-461.
TryResolution(st, part) ==
    LET sp == Split(Lower(part), "x") IN
    IF Len(sp) # 2 THEN NegativeCandidate(st, part)
    ELSE IF ~IntOk(sp[1]) THEN NegativeCandidate(st, part)
    ELSE IF ~IntOk(sp[2])
         THEN NegativeCandidate([st EXCEPT !.width = IntOf(sp[1])], part)
         ELSE [st EXCEPT !.width = IntOf(sp[1]), !.height = IntOf(sp[2])]

\* lines 445-461: one iteration of the loop over the remaining parts
ParsePart(st, raw) ==
    LET part == Strip(raw) IN
    IF part = <<>> \/ part = <<"-">> THEN st
    ELSE IF LooksLikeResolution(part) THEN TryResolution(st, part)
    ELSE NegativeCandidate(st, part)

RECURSIVE ParseRemaining(_, _)
ParseRemaining(st, remaining) ==
    IF remaining = <<>> THEN st
    ELSE ParseRemaining(ParsePart(st, Head(remaining)), Tail(remaining))

\* lines 430-461: params -> (prompt, negative_prompt, width, height)
ParseParams(params) ==
    LET parts == Split(unquote(params), "/")
        st0 == [prompt |-> IF Len(parts) > 0 THEN parts[1] ELSE <<>>,
                negative_prompt |-> <<>>,
                width |-> DefaultWidth,
                height |-> DefaultHeight]
    IN ParseRemaining(st0, Tail(parts))

(***************************************************************************)
(* The cache: get_cache_key, check_cache, save_to_cache (lines 331-345)    *)
(***************************************************************************)

Sep == <<"|", "|">>

\* line 333: f"{prompt}||{negative_prompt}||{width}||{height}"
cache_string(prompt, negative_prompt, width, height) ==
    prompt \o Sep \o negative_prompt \o Sep \o IntStr(width) \o Sep \o IntStr(height)

\* hashlib.md5(...).hexdigest(), taken as collision-free: the digest of a text
\* is modelled as that text under a tag, so two digests are equal exactly when
\* the digested texts are.
md5_hexdigest(s) == <<"md5:">> \o s

\* lines 331-335 with the active model name digested as well
get_cache_key_per_model(prompt, negative_prompt, width, height) ==
    md5_hexdigest(config.model_name \o Sep
                  \o cache_string(prompt, negative_prompt, width, height)) \o <<".jpg">>

get_cache_key(prompt, negative_prompt, width, height) ==
    md5_hexdigest(cache_string(prompt, negative_prompt, width, height)) \o <<".jpg">>

\* lines 337-339: os.path.exists(filepath)
check_cache(files, cache_filename) == cache_filename \in DOMAIN files

\* the directory with file name set to content
WithFile(files, name, content) ==
    [f \in DOMAIN files \cup {name} |-> IF f = name THEN content ELSE files[f]]

\* line 344, open(filepath, 'wb') in append mode instead: the content is kept
OpenKeep(files, name) ==
    IF name \in DOMAIN files THEN files ELSE WithFile(files, name, <<>>)

\* line 344, open(filepath, 'wb'): the file is created or truncated to nothing
OpenTruncate(files, name) == WithFile(files, name, <<>>)

\* line 344, f.write(image_data) through a handle opened at offset 0: the bytes
\* overlay the file from its start, whatever another handle has written since
WriteAtStart(files, name, data) ==
    LET old == IF name \in DOMAIN files THEN files[name] ELSE <<>>
        rest == IF Len(old) > Len(data) THEN SubSeq(old, Len(data) + 1, Len(old)) ELSE <<>>
    IN WithFile(files, name, data \o rest)

\* lines 341-345 run without interruption
save_to_cache(files, cache_filename, image_data) ==
    WriteAtStart(OpenTruncate(files, cache_filename), cache_filename, image_data)

\* send_file(cached): the bytes of the file at the time it is read
ReadFile(files, name) == files[name]

(***************************************************************************)
(* The model registry: KNOWN_MODELS and get_model_info (lines 19-54,95-113)*)
(***************************************************************************)

\* An info dict is a function from the keys it has to their values.
UnifiedInfo == [type |-> "unified"]

NativeTemplate == <<"https://chutes-", "{model}", ".chutes.ai/generate">>

NativeInfo(fmt) ==
    [type |-> "native", url_template |-> NativeTemplate,
     supports_negative |-> FALSE, resolution_format |-> fmt]

\* lines 19-54, in the order of the dict
KNOWN_MODELS == <<
    <<<<"q", "w", "e", "n", "-", "i", "m", "a", "g", "e">>, UnifiedInfo>>,
    <<<<"J", "u", "g", "g", "e", "r", "n", "a", "u", "t", "X", "L", "-", "R", "a", "g", "n", "a", "r", "o", "k">>, UnifiedInfo>>,
    <<<<"F", "L", "U", "X", ".", "1", "-", "s", "c", "h", "n", "e", "l", "l">>, UnifiedInfo>>,
    <<<<"H", "a", "s", "s", "a", "k", "u", "X", "L">>, UnifiedInfo>>,
    <<<<"I", "l", "l", "u", "s", "t", "r", "i", "j">>, UnifiedInfo>>,
    <<<<"s", "t", "a", "b", "i", "l", "i", "t", "y", "a", "i", "/", "s", "t", "a", "b", "l", "e", "-", "d", "i", "f", "f", "u", "s", "i", "o", "n", "-", "x", "l", "-", "b", "a", "s", "e", "-", "1", ".", "0">>, UnifiedInfo>>,
    <<<<"d", "i", "a", "g", "o", "n", "a", "l", "g", "e", "/", "B", "o", "o", "b", "a">>, UnifiedInfo>>,
    <<<<"N", "o", "v", "a", "F", "u", "r", "r", "y", "X", "L">>, UnifiedInfo>>,
    <<<<"i", "L", "u", "s", "t", "M", "i", "x">>, UnifiedInfo>>,
    <<<<"A", "n", "i", "m", "i", "j">>, UnifiedInfo>>,
    <<<<"L", "y", "k", "o", "n", "/", "d", "r", "e", "a", "m", "s", "h", "a", "p", "e", "r", "-", "x", "l", "-", "1", "-", "0">>, UnifiedInfo>>,
    <<<<"J", "u", "g", "g", "e", "r", "n", "a", "u", "t", "X", "L">>, UnifiedInfo>>,
    <<<<"c", "h", "r", "o", "m", "a">>, UnifiedInfo>>,
    <<<<"z", "-", "i", "m", "a", "g", "e", "-", "t", "u", "r", "b", "o">>, NativeInfo("none")>>,
    <<<<"h", "u", "n", "y", "u", "a", "n", "-", "i", "m", "a", "g", "e", "-", "3">>, NativeInfo("none")>>,
    <<<<"h", "i", "d", "r", "e", "a", "m">>, NativeInfo("string")>> >>

\* the entries of a table (a sequence of <<name, info>>) whose name satisfies
\* the test, in table order
ExactIn(table, name) == {i \in 1..Len(table) : table[i][1] = name}
FoldedIn(table, name) == {i \in 1..Len(table) : Lower(table[i][1]) = Lower(name)}
First(S) == CHOOSE i \in S : \A j \in S : i <= j

\* lines 95-113 with the user's table consulted before the case-insensitive
\* comparison
get_model_info_custom_first(model_name, cfg) ==
    IF model_name = <<>> THEN None
    ELSE IF ExactIn(KNOWN_MODELS, model_name) # {}
         THEN KNOWN_MODELS[First(ExactIn(KNOWN_MODELS, model_name))][2]
    ELSE IF ExactIn(cfg.custom_models, model_name) # {}
         THEN cfg.custom_models[First(ExactIn(cfg.custom_models, model_name))][2]
    ELSE IF FoldedIn(KNOWN_MODELS, model_name) # {}
         THEN KNOWN_MODELS[First(FoldedIn(KNOWN_MODELS, model_name))][2]
    ELSE None

\* lines 95-113; None when the name is empty or unknown
get_model_info(model_name, cfg) ==
    IF model_name = <<>> THEN None
    ELSE IF ExactIn(KNOWN_MODELS, model_name) # {}
         THEN KNOWN_MODELS[First(ExactIn(KNOWN_MODELS, model_name))][2]
    ELSE IF FoldedIn(KNOWN_MODELS, model_name) # {}
         THEN KNOWN_MODELS[First(FoldedIn(KNOWN_MODELS, model_name))][2]
    ELSE IF ExactIn(cfg.custom_models, model_name) # {}
         THEN cfg.custom_models[First(ExactIn(cfg.custom_models, model_name))][2]
    ELSE None

(***************************************************************************)
(* request_chutes_image, lines 352-403: URL, headers and payload           *)
(***************************************************************************)

UnifiedUrl == <<"https://image.chutes.ai/generate">>

\* template.format(model=model_name): a template is a sequence of text pieces,
\* the placeholder "{model}" being one piece
RECURSIVE Format(_, _)
Format(template, model_name) ==
    IF template = <<>> THEN <<>>
    ELSE (IF Head(template) = "{model}" THEN model_name ELSE <<Head(template)>>)
         \o Format(Tail(template), model_name)

\* lines 371-374: "{model}" in template
FormatUrl(template, model_name) ==
    IF \E i \in 1..Len(template) : template[i] = "{model}"
    THEN Format(template, model_name)
    ELSE template

\* lines 367-374
TargetUrl(info, model_name) ==
    IF info.type = "unified" THEN UnifiedUrl ELSE FormatUrl(info.url_template, model_name)

\* info.get(key, default)
InfoGet(info, key, default) == IF key \in DOMAIN info THEN info[key] ELSE default

\* line 387 of an adapter that sends the negative prompt to every model
SupportsNegativeAlways(info) == TRUE

\* line 387
SupportsNegative(info) ==
    IF info.type = "unified" THEN InfoGet(info, "supports_negative", TRUE)
    ELSE InfoGet(info, "supports_negative", FALSE)

num_inference_steps == 20

\* guidance_scale 7.5, kept as the text of the literal
guidance_scale == <<"7", ".", "5">>

\* lines 377-403
BuildPayload(info, model_name, prompt, negative_prompt, width, height) ==
    LET base == [prompt |-> prompt]
        withModel == IF info.type = "unified"
                     THEN base @@ [model |-> model_name] ELSE base
        withNeg == IF SupportsNegative(info) /\ negative_prompt # <<>>
                   THEN withModel @@ [negative_prompt |-> negative_prompt]
                   ELSE withModel
        res_format == InfoGet(info, "resolution_format", "standard")
        withRes == IF res_format = "standard"
                   THEN withNeg @@ [width |-> width, height |-> height]
                   ELSE IF res_format = "string"
                   THEN withNeg @@ [resolution |-> IntStr(width) \o <<"x">> \o IntStr(height)]
                   ELSE withNeg
    IN withRes @@ [num_inference_steps |-> num_inference_steps,
                   guidance_scale |-> guidance_scale]

\* lines 355-358
Headers(cfg) ==
    [Authorization |-> <<"Bearer ">> \o cfg.api_key, ContentType |-> "application/json"]

(***************************************************************************)
(* The environment of the server: configurations, paths, upstream replies  *)
(***************************************************************************)

\* number of requests the server receives in a behaviour
NReq == 2

Reqs == 1..NReq

ModelChroma == <<"c", "h", "r", "o", "m", "a">>
ModelHidream == <<"h", "i", "d", "r", "e", "a", "m">>
ModelMy == <<"m", "y">>
ModelGhost == <<"g", "h", "o", "s", "t">>

\* an entry of custom_models as parse_curl_request stores it (lines 117-153,
\* 188): a native model with a literal URL
MyInfo ==
    [type |-> "native", supports_negative |-> TRUE, resolution_format |-> "standard",
     url_template |-> <<"https://my.chutes.ai/generate">>]

CustomModels == << <<ModelMy, MyInfo>> >>

Cfg(key, model, custom) == [api_key |-> key, model_name |-> model, custom_models |-> custom]

\* the configurations the server is started with (line 318: api_key and
\* model_name are non-empty): a unified model, a native one, and a model name
\* of config.json that has no metadata
Configs ==
    { Cfg(<<"cpk_A">>, ModelChroma, <<>>),
      Cfg(<<"cpk_B">>, ModelHidream, <<>>),
      Cfg(<<"cpk_A">>, ModelGhost, CustomModels) }

\* paths requested from the running server: "a||/a", "a/||a", "a%2F1x2"
GatewayPaths ==
    { <<"a", "|", "|", "/", "a">>,
      <<"a", "/", "|", "|", "a">>,
      <<"a", "%", "2", "F", "1", "x", "2">> }

\* image bytes an upstream 200 may carry
Bodies == { <<1>>, <<2, 3>> }

\* response.text of an upstream error reply
Texts == { <<>>, <<"e">> }

\* str(e) of an exception raised inside the requests library
LibTexts == { <<>>, <<"lib">> }

Reply(kind, status, content, text) ==
    [kind |-> kind, status |-> status, content |-> content, text |-> text]

NoReply == Reply("none", 0, <<>>, <<>>)

\* what requests.post can end with at line 405, other than a 200
Failures ==
    { Reply("status", 400, <<>>, t) : t \in Texts }
    \cup { Reply("status", 503, <<>>, <<"e">>) }
    \cup { Reply("status", st, <<>>, <<>>) : st \in {401, 404, 429, 500} }
    \cup { Reply(k, 0, <<>>, t) : k \in {"timeout", "connection"}, t \in LibTexts }

SnippetLen == 200

\* text[:200]
Snippet(text) == SubSeq(text, 1, IF Len(text) < SnippetLen THEN Len(text) ELSE SnippetLen)

\* str(e) of the exception request_chutes_image ends with (lines 409-420, and
\* the library's own exceptions, which pass through)
ErrorText(reply) ==
    IF reply.kind # "status" THEN reply.text
    ELSE CASE reply.status = 400 -> <<"Error 400 (Bad Request): ">> \o Snippet(reply.text)
           [] reply.status = 401 -> <<"Wrong API key (401).">>
           [] reply.status = 404 -> <<"Model/URL not found (404).">>
           [] reply.status = 429 -> <<"Daily limit reached (429).">>
           [] reply.status = 500 -> <<"Chutes server error (500).">>
           [] OTHER -> <<"HTTP ">> \o IntStr(reply.status) \o <<": ">> \o Snippet(reply.text)

\* the status table of a gateway that passes the failure kind on
ErrorStatusByKind(reply) ==
    CASE reply.kind = "timeout" -> 504
      [] reply.kind = "connection" -> 503
      [] reply.kind = "status" /\ reply.status \in {400, 401, 404, 429} -> reply.status
      [] reply.kind = "status" /\ reply.status = 500 -> 502
      [] OTHER -> 500

\* line 483: status=500 for every exception
ErrorStatus(reply) == 500

HttpResponse(status, mimetype, body, text) ==
    [status |-> status, mimetype |-> mimetype, body |-> body, text |-> text]

NoResponse == HttpResponse(0, "", <<>>, <<>>)

\* line 483
ErrorResponse(reply) ==
    HttpResponse(ErrorStatus(reply), "text/plain; charset=utf-8", <<>>, ErrorText(reply))

\* lines 471 and 480
ImageResponse(bytes) == HttpResponse(200, "image/jpeg", bytes, <<>>)

NoRequest ==
    [path |-> <<>>, prompt |-> <<>>, negative_prompt |-> <<>>, width |-> 0, height |-> 0,
     cache_file |-> <<>>, cached |-> FALSE, model_name |-> <<>>, api_key |-> <<>>]

NoUpstream ==
    [calls |-> 0, url |-> <<>>, payload |-> None, headers |-> None, reply |-> NoReply]

(***************************************************************************)
(* generate_image, lines 429-483, one action per step of a request         *)
(***************************************************************************)

\* line 469 with the test dropped: every request generates
AlwaysMiss(cached) == "miss"

\* line 469: if cached
AfterCheck(cached) == IF cached THEN "hit" ELSE "miss"

\* lines 429-469: the route takes the path, parses it, computes the cache file
\* name and looks it up. Requests are numbered in the order they arrive.
HandleRequest(r, path) ==
    /\ pc[r] = "idle"
    /\ \A q \in Reqs : q < r => pc[q] # "idle"
    /\ LET g == ParseParams(path)
           cache_file == get_cache_key(g.prompt, g.negative_prompt, g.width, g.height)
           cached == check_cache(cache, cache_file)
       IN /\ rq' = [rq EXCEPT ![r] =
                      [path |-> path, prompt |-> g.prompt,
                       negative_prompt |-> g.negative_prompt,
                       width |-> g.width, height |-> g.height,
                       cache_file |-> cache_file, cached |-> cached,
                       model_name |-> config.model_name, api_key |-> config.api_key]]
          /\ pc' = [pc EXCEPT ![r] = AfterCheck(cached)]
    /\ UNCHANGED <<config, cache, up, resp, pvars, cvars, mvars>>

\* lines 470-471: send_file(cached, mimetype='image/jpeg')
ServeHit(r) ==
    /\ pc[r] = "hit"
    /\ resp' = [resp EXCEPT ![r] = ImageResponse(ReadFile(cache, rq[r].cache_file))]
    /\ pc' = [pc EXCEPT ![r] = "done"]
    /\ UNCHANGED <<config, cache, rq, up, pvars, cvars, mvars>>

\* lines 360-364 moved below line 405: the call is made before the metadata
\* is found missing
NoMetadataAfterCall(r) ==
    /\ pc[r] = "miss"
    /\ get_model_info(config.model_name, config) = None
    /\ up' = [up EXCEPT ![r].calls = @ + 1]
    /\ resp' = [resp EXCEPT ![r] =
                  ErrorResponse(Reply("nometadata", 0, <<>>,
                                      <<"No metadata for model ">> \o config.model_name))]
    /\ pc' = [pc EXCEPT ![r] = "done"]
    /\ UNCHANGED <<config, cache, rq, pvars, cvars, mvars>>

\* lines 476, 360-364: no metadata for the active model, the exception is
\* answered by lines 481-483
NoMetadata(r) ==
    /\ pc[r] = "miss"
    /\ get_model_info(config.model_name, config) = None
    /\ resp' = [resp EXCEPT ![r] =
                  ErrorResponse(Reply("nometadata", 0, <<>>,
                                      <<"No metadata for model ">> \o config.model_name))]
    /\ pc' = [pc EXCEPT ![r] = "done"]
    /\ UNCHANGED <<config, cache, rq, up, pvars, cvars, mvars>>

\* lines 476, 352-405: the payload is built and requests.post sends it
CallUpstream(r) ==
    /\ pc[r] = "miss"
    /\ LET info == get_model_info(config.model_name, config) IN
         /\ info # None
         /\ up' = [up EXCEPT ![r] =
                     [calls |-> up[r].calls + 1,
                      url |-> TargetUrl(info, config.model_name),
                      payload |-> BuildPayload(info, config.model_name, rq[r].prompt,
                                               rq[r].negative_prompt, rq[r].width,
                                               rq[r].height),
                      headers |-> Headers(config),
                      reply |-> NoReply]]
    /\ pc' = [pc EXCEPT ![r] = "generating"]
    /\ UNCHANGED <<config, cache, rq, resp, pvars, cvars, mvars>>

\* lines 405-408: the upstream answers 200, image_data = response.content
GenerateOk(r, body) ==
    /\ pc[r] = "generating"
    /\ up' = [up EXCEPT ![r].reply = Reply("status", 200, body, <<>>)]
    /\ pc' = [pc EXCEPT ![r] = "generated"]
    /\ UNCHANGED <<config, cache, rq, resp, pvars, cvars, mvars>>

\* lines 481-483 of a handler that stores what it answers
GenerateFailStoring(r, reply) ==
    /\ pc[r] = "generating"
    /\ up' = [up EXCEPT ![r].reply = reply]
    /\ cache' = save_to_cache(cache, rq[r].cache_file, reply.content)
    /\ resp' = [resp EXCEPT ![r] = ErrorResponse(reply)]
    /\ pc' = [pc EXCEPT ![r] = "done"]
    /\ UNCHANGED <<config, rq, pvars, cvars, mvars>>

\* lines 405-420 inside a loop that posts again after a failure
GenerateFailRetrying(r, reply) ==
    /\ pc[r] = "generating"
    /\ up' = [up EXCEPT ![r].reply = reply]
    /\ pc' = [pc EXCEPT ![r] = "miss"]
    /\ UNCHANGED <<config, cache, rq, resp, pvars, cvars, mvars>>

\* line 405 without timeout=60, inside a handler that waits on after a failure
GenerateFailWaiting(r, reply) ==
    /\ pc[r] = "generating"
    /\ up' = [up EXCEPT ![r].reply = reply]
    /\ UNCHANGED <<config, cache, pc, rq, resp, pvars, cvars, mvars>>

\* lines 405-420, 481-483: the upstream answers another status, times out or
\* the connection fails; the exception becomes the error response
GenerateFail(r, reply) ==
    /\ pc[r] = "generating"
    /\ up' = [up EXCEPT ![r].reply = reply]
    /\ resp' = [resp EXCEPT ![r] = ErrorResponse(reply)]
    /\ pc' = [pc EXCEPT ![r] = "done"]
    /\ UNCHANGED <<config, cache, rq, pvars, cvars, mvars>>

\* lines 479, 342-344: open(filepath, 'wb')
SaveOpen(r) ==
    /\ pc[r] = "generated"
    /\ cache' = OpenTruncate(cache, rq[r].cache_file)
    /\ pc' = [pc EXCEPT ![r] = "writing"]
    /\ UNCHANGED <<config, rq, up, resp, pvars, cvars, mvars>>

\* line 344: f.write(image_data) and the close that ends the with block
SaveWrite(r) ==
    /\ pc[r] = "writing"
    /\ cache' = WriteAtStart(cache, rq[r].cache_file, up[r].reply.content)
    /\ pc' = [pc EXCEPT ![r] = "saved"]
    /\ UNCHANGED <<config, rq, up, resp, pvars, cvars, mvars>>

\* lines 479-480 in the other order: the response leaves before the save
RespondBeforeSave(r) ==
    /\ pc[r] = "generated"
    /\ resp' = [resp EXCEPT ![r] = ImageResponse(up[r].reply.content)]
    /\ pc' = [pc EXCEPT ![r] = "done"]
    /\ UNCHANGED <<config, cache, rq, up, pvars, cvars, mvars>>

\* line 480: Response(image_data, mimetype='image/jpeg')
RespondOk(r) ==
    /\ pc[r] = "saved"
    /\ resp' = [resp EXCEPT ![r] = ImageResponse(up[r].reply.content)]
    /\ pc' = [pc EXCEPT ![r] = "done"]
    /\ UNCHANGED <<config, cache, rq, up, pvars, cvars, mvars>>

\* lines 267-327, 422: the server is stopped, the menu changes the
\* configuration and starts the server again; CACHE_DIR stays as it is
Restart(c) ==
    /\ \A r \in Reqs : pc[r] \in {"idle", "done"}
    /\ c # config
    /\ config' = c
    /\ UNCHANGED <<cache, pc, rq, up, resp, pvars, cvars, mvars>>

\* the harness variables of the other specifications, at rest
ParserIdle == ppath = <<>> /\ presult = None
CacheIdle ==
    /\ tcache = <<>>
    /\ tkey = <<>>
    /\ tdata = <<>>
    /\ tres = [phase |-> "init", hit |-> FALSE, content |-> <<>>]

ModelIdle ==
    /\ mname = <<>>
    /\ mtext = <<>>
    /\ mcfg = None
    /\ mreq = None
    /\ mres = None

GatewayIdle ==
    /\ config = Cfg(<<"cpk_A">>, ModelChroma, <<>>)
    /\ cache = <<>>
    /\ pc = [r \in Reqs |-> "idle"]
    /\ rq = [r \in Reqs |-> NoRequest]
    /\ up = [r \in Reqs |-> NoUpstream]
    /\ resp = [r \in Reqs |-> NoResponse]

\* start_server(config) with an empty CACHE_DIR (line 493)
Init ==
    /\ config \in Configs
    /\ cache = <<>>
    /\ pc = [r \in Reqs |-> "idle"]
    /\ rq = [r \in Reqs |-> NoRequest]
    /\ up = [r \in Reqs |-> NoUpstream]
    /\ resp = [r \in Reqs |-> NoResponse]
    /\ ParserIdle
    /\ CacheIdle
    /\ ModelIdle

Next ==
    \/ \E r \in Reqs, path \in GatewayPaths : HandleRequest(r, path)
    \/ \E r \in Reqs : ServeHit(r)
    \/ \E r \in Reqs : NoMetadata(r)
    \/ \E r \in Reqs : CallUpstream(r)
    \/ \E r \in Reqs, body \in Bodies : GenerateOk(r, body)
    \/ \E r \in Reqs, reply \in Failures : GenerateFail(r, reply)
    \/ \E r \in Reqs : SaveOpen(r)
    \/ \E r \in Reqs : SaveWrite(r)
    \/ \E r \in Reqs : RespondOk(r)
    \/ \E c \in Configs : Restart(c)

Spec == Init /\ [][Next]_vars

\* a request handler's steps, once it holds a request
Step(r) ==
    \/ ServeHit(r)
    \/ NoMetadata(r)
    \/ CallUpstream(r)
    \/ SaveOpen(r)
    \/ SaveWrite(r)
    \/ RespondOk(r)

\* requests.post comes back: a 200, another status, a timeout or a
\* connection failure (line 405, timeout=60)
UpstreamReturns(r) ==
    \/ \E body \in Bodies : GenerateOk(r, body)
    \/ \E reply \in Failures : GenerateFail(r, reply)

\* The server runs each handler in a thread of its own (app.run, line 488):
\* a handler that can take its next step takes it, and the upstream call
\* returns or times out.
Fairness ==
    \A r \in Reqs : WF_vars(Step(r)) /\ WF_vars(UpstreamReturns(r))

\* paths requested while progress is observed: "a||/a" and "a%2F1x2"
LivePaths ==
    { <<"a", "|", "|", "/", "a">>,
      <<"a", "%", "2", "F", "1", "x", "2">> }

\* the failures of requests.post while progress is observed: the timeout of
\* line 405 and an upstream status
LiveFailures ==
    { Reply("timeout", 0, <<>>, <<"lib">>), Reply("status", 500, <<>>, <<>>) }

\* the steps of Next, with the requests' paths and the upstream's failures
\* drawn from the sets above
NextLive ==
    \/ \E r \in Reqs, path \in LivePaths : HandleRequest(r, path)
    \/ \E r \in Reqs : ServeHit(r)
    \/ \E r \in Reqs : NoMetadata(r)
    \/ \E r \in Reqs : CallUpstream(r)
    \/ \E r \in Reqs, body \in Bodies : GenerateOk(r, body)
    \/ \E r \in Reqs, reply \in LiveFailures : GenerateFail(r, reply)
    \/ \E r \in Reqs : SaveOpen(r)
    \/ \E r \in Reqs : SaveWrite(r)
    \/ \E r \in Reqs : RespondOk(r)
    \/ \E c \in Configs : Restart(c)

SpecLive == Init /\ [][NextLive]_vars /\ Fairness

(***************************************************************************)
(* The parser on its own: every path of a bounded vocabulary is parsed     *)
(***************************************************************************)

\* number of segments after the prompt
MaxSegs == 3

\* first segments: "a" and "%2Fa" (which decodes to an empty prompt and "a")
PromptVocab == { <<"a">>, <<"%", "2", "F", "a">> }

\* later segments: skipped ones, negative prompts, well-formed and malformed
\* resolutions
SegVocab ==
    { <<>>, <<" ">>, <<"-">>, <<" ", "-", " ">>,
      <<"b">>, <<"c", " ">>, <<"2">>, <<"x">>,
      <<"1", "x", "2">>, <<" ", "2", "x", "1", " ">>,
      <<"0", "x", "1">>, <<"1", "x", "0">>,
      <<"1", "X", "2">>,
      <<"1", "x">>, <<"x", "1">>, <<"1", "x", "2", "x", "1">>,
      <<"1", "x", "b">>, <<"-", "1", "x", "1">> }

SegLists == UNION { [1..n -> SegVocab] : n \in 0..MaxSegs }

RECURSIVE JoinPath(_, _)
JoinPath(prompt, segs) ==
    IF segs = <<>> THEN prompt
    ELSE JoinPath(prompt \o <<"/">> \o Head(segs), Tail(segs))

\* the paths the route /prompt/<path:params> is given (line 428)
PathInputs == { JoinPath(p, segs) : p \in PromptVocab, segs \in SegLists }

GatewayUnused == UNCHANGED gvars

\* lines 430-461 applied to the path
ParseRequest ==
    /\ presult = None
    /\ presult' = ParseParams(ppath)
    /\ UNCHANGED <<ppath, cvars, mvars>>
    /\ GatewayUnused

InitParse ==
    /\ ppath \in PathInputs
    /\ presult = None
    /\ GatewayIdle
    /\ CacheIdle
    /\ ModelIdle

NextParse == ParseRequest

SpecParse == InitParse /\ [][NextParse]_vars

(***************************************************************************)
(* The cache on its own: save_to_cache then check_cache on one directory   *)
(***************************************************************************)

TestKeys ==
    { get_cache_key(<<"a">>, <<>>, DefaultWidth, DefaultHeight),
      get_cache_key(<<"a">>, <<"b">>, 1, 2) }

TestData == { <<>>, <<1>>, <<2, 3>>, <<1, 2, 3>> }

\* every directory holding some of the files, each with some content
TestCaches == UNION { [K -> TestData] : K \in SUBSET TestKeys }

NoGet == [phase |-> "init", hit |-> FALSE, content |-> <<>>]

\* put: lines 341-345
Put ==
    /\ tres.phase = "init"
    /\ tcache' = save_to_cache(tcache, tkey, tdata)
    /\ tres' = [tres EXCEPT !.phase = "put"]
    /\ UNCHANGED <<tkey, tdata, pvars, mvars>>
    /\ GatewayUnused

\* get: lines 337-339 and the read of the file that line 471 serves
Get ==
    /\ tres.phase = "put"
    /\ tres' = [phase |-> "got",
                hit |-> check_cache(tcache, tkey),
                content |-> IF check_cache(tcache, tkey)
                            THEN ReadFile(tcache, tkey) ELSE <<>>]
    /\ UNCHANGED <<tcache, tkey, tdata, pvars, mvars>>
    /\ GatewayUnused

InitCache ==
    /\ tcache \in TestCaches
    /\ tkey \in TestKeys
    /\ tdata \in TestData
    /\ tres = NoGet
    /\ GatewayIdle
    /\ ParserIdle
    /\ ModelIdle

NextCache == Put \/ Get

SpecCache == InitCache /\ [][NextCache]_vars

(***************************************************************************)
(* parse_curl_request (lines 115-153): metadata inferred from example text *)
(***************************************************************************)

\* t in s, for texts
HasSub(s, t) == \E i \in 1..(Len(s) - Len(t) + 1) : SubSeq(s, i, i + Len(t) - 1) = t

\* s[i:].startswith(t), i counted from 1
StartsWith(s, i, t) == i >= 1 /\ i + Len(t) - 1 <= Len(s) /\ SubSeq(s, i, i + Len(t) - 1) = t

ImageHost == <<"i", "m", "a", "g", "e", ".", "c", "h", "u", "t", "e", "s", ".", "a", "i", "/", "g", "e", "n", "e", "r", "a", "t", "e">>
ChutesHost == <<".", "c", "h", "u", "t", "e", "s", ".", "a", "i", "/", "g", "e", "n", "e", "r", "a", "t", "e">>
Scheme == <<"h", "t", "t", "p", "s", ":", "/", "/">>
DotChutes == <<".", "c", "h", "u", "t", "e", "s", ".", "a", "i">>
SlashGenerate == <<"/", "g", "e", "n", "e", "r", "a", "t", "e">>
TxtNegative == <<"n", "e", "g", "a", "t", "i", "v", "e", "_", "p", "r", "o", "m", "p", "t">>
TxtResolution == <<"r", "e", "s", "o", "l", "u", "t", "i", "o", "n">>
TxtWidth == <<"w", "i", "d", "t", "h">>
TxtHeight == <<"h", "e", "i", "g", "h", "t">>

\* \w of the regular expression, for the characters of the modelled text
WordChars ==
    Digits \cup {"_"} \cup
    {"a", "b", "c", "d", "e", "f", "g", "h", "i", "j", "k", "l", "m", "n", "o", "p", "q",
     "r", "s", "t", "u", "v", "w", "x", "y", "z"}

\* the class [\w\-\.]
IsHostChar(c) == c \in WordChars \cup {"-", "."}

\* the index of the first character from i on that is outside the class
RECURSIVE HostEnd(_, _)
HostEnd(s, i) == IF i <= Len(s) /\ IsHostChar(s[i]) THEN HostEnd(s, i + 1) ELSE i

\* line 132: the pattern https://[\w\-\.]+\.chutes\.ai/generate matches at i.
\* The '/' of the pattern's tail is outside the class, so the tail can only
\* sit where the run of class characters after the scheme ends.
UrlMatchAt(s, i) ==
    /\ StartsWith(s, i, Scheme)
    /\ LET e == HostEnd(s, i + Len(Scheme)) IN
         /\ e - Len(DotChutes) > i + Len(Scheme)
         /\ StartsWith(s, e - Len(DotChutes), DotChutes)
         /\ StartsWith(s, e, SlashGenerate)

\* lines 132-137: re.search gives the leftmost match; no match leaves ""
SearchUrl(s) ==
    LET M == {i \in 1..Len(s) : UrlMatchAt(s, i)} IN
    IF M = {} THEN <<>>
    ELSE LET i == CHOOSE k \in M : \A j \in M : k <= j
         IN SubSeq(s, i, HostEnd(s, i + Len(Scheme)) + Len(SlashGenerate) - 1)

\* lines 149-151 left out: what the text shows is kept for a unified model
KeepInferred(info) == info

\* lines 149-151: a unified model is standard in every respect
UnifiedDefaults(info) ==
    IF info.type = "unified"
    THEN [info EXCEPT !.resolution_format = "standard", !.supports_negative = TRUE]
    ELSE info

\* lines 115-153
parse_curl_request(model_name, curl_text) ==
    LET type == IF HasSub(curl_text, ImageHost) THEN "unified"
                ELSE IF HasSub(curl_text, ChutesHost) THEN "native"
                ELSE "unknown"
        url == IF type = "native" THEN SearchUrl(curl_text) ELSE <<>>
        res == IF HasSub(curl_text, TxtResolution) /\ Contains(curl_text, "x") THEN "string"
               ELSE IF HasSub(curl_text, TxtWidth) /\ HasSub(curl_text, TxtHeight)
                    THEN "standard"
                    ELSE "none"
    IN UnifiedDefaults([type |-> type,
                        supports_negative |-> HasSub(curl_text, TxtNegative),
                        resolution_format |-> res,
                        url_template |-> url])

(***************************************************************************)
(* Choosing a model and building its request: configure_model_name (lines  *)
(* 155-190) followed by request_chutes_image up to the payload (352-403)   *)
(***************************************************************************)

ModelChromaCap == <<"C", "h", "r", "o", "m", "a">>
ModelHidreamUp == <<"H", "I", "D", "R", "E", "A", "M">>
ModelZ == <<"z", "-", "i", "m", "a", "g", "e", "-", "t", "u", "r", "b", "o">>
ModelMyCap == <<"M", "y">>
ModelNew == <<"n", "e", "w">>

\* the names typed at line 158, stripped
ModelNames ==
    { <<>>, ModelChroma, ModelChromaCap, ModelHidream, ModelHidreamUp, ModelZ,
      ModelMy, ModelMyCap, ModelNew }

\* custom_models as config.json may hold it (line 74): empty, one learnt
\* model, and a file whose keys include a built-in name in both spellings
CustomTables ==
    { <<>>,
      CustomModels,
      << <<ModelChroma, MyInfo>>, <<ModelChromaCap, MyInfo>>, <<ModelMy, MyInfo>> >> }

CurlUnified == <<"c", "u", "r", "l", " ", "h", "t", "t", "p", "s", ":", "/", "/", "i", "m", "a", "g", "e", ".", "c", "h", "u", "t", "e", "s", ".", "a", "i", "/", "g", "e", "n", "e", "r", "a", "t", "e">>
CurlNative == <<"c", "u", "r", "l", " ", "h", "t", "t", "p", "s", ":", "/", "/", "c", "h", "u", "t", "e", "s", "-", "m", "y", ".", "c", "h", "u", "t", "e", "s", ".", "a", "i", "/", "g", "e", "n", "e", "r", "a", "t", "e">>
CurlHttp == <<"c", "u", "r", "l", " ", "h", "t", "t", "p", ":", "/", "/", "m", "y", ".", "c", "h", "u", "t", "e", "s", ".", "a", "i", "/", "g", "e", "n", "e", "r", "a", "t", "e">>
CurlOther == <<"c", "u", "r", "l", " ", "h", "t", "t", "p", "s", ":", "/", "/", "m", "y", ".", "h", "o", "s", "t", "/", "g", "e", "n", "e", "r", "a", "t", "e">>

\* an optional piece of the example text
Opt(t) == { <<>>, <<" ">> \o t }

\* the texts pasted at lines 174-182: nothing or a command line for the
\* unified host, a native host, a native host over plain http, or another
\* host, followed by any of the words the analysis looks for
ExampleTexts ==
    { u \o n \o r \o s \o w \o h :
        u \in {<<>>, CurlUnified, CurlNative, CurlHttp, CurlOther},
        n \in Opt(TxtNegative), r \in Opt(TxtResolution), s \in Opt(<<"1", "x", "1">>),
        w \in Opt(TxtWidth), h \in Opt(TxtHeight) }

GenRequest(prompt, negative_prompt, width, height) ==
    [prompt |-> prompt, negative_prompt |-> negative_prompt,
     width |-> width, height |-> height]

\* what generate_image hands to request_chutes_image at line 476
GenRequests ==
    { GenRequest(<<"p">>, n, s[1], s[2]) :
        n \in {<<>>, <<"n">>}, s \in {<<512, 512>>, <<DefaultWidth, 768>>} }

NoResult ==
    [phase |-> "init", found |-> None, new_info |-> None, info |-> None,
     url |-> <<>>, payload |-> None]

\* config["custom_models"][model_name] = new_info (line 188)
Register(table, model_name, new_info) ==
    IF ExactIn(table, model_name) # {}
    THEN [table EXCEPT ![First(ExactIn(table, model_name))] = <<model_name, new_info>>]
    ELSE Append(table, <<model_name, new_info>>)

\* lines 95-113 applied to the name and the config
LookupModel ==
    /\ mres.phase = "init"
    /\ mres' = [mres EXCEPT !.phase = "looked", !.found = get_model_info(mname, mcfg)]
    /\ UNCHANGED <<mname, mtext, mcfg, mreq, pvars, cvars>>
    /\ GatewayUnused

\* lines 155-190: an empty name is refused, a known name becomes the active
\* model, an unknown one is learnt from the example text first
ConfigureModel ==
    /\ mres.phase = "looked"
    /\ IF mname = <<>>
       THEN /\ mres' = [mres EXCEPT !.phase = "refused"]
            /\ UNCHANGED mcfg
       ELSE IF get_model_info(mname, mcfg) # None
       THEN /\ mcfg' = [mcfg EXCEPT !.model_name = mname]
            /\ mres' = [mres EXCEPT !.phase = "configured"]
       ELSE LET new_info == parse_curl_request(mname, mtext) IN
            /\ mcfg' = [mcfg EXCEPT !.custom_models = Register(@, mname, new_info),
                                    !.model_name = mname]
            /\ mres' = [mres EXCEPT !.phase = "configured", !.new_info = new_info]
    /\ UNCHANGED <<mname, mtext, mreq, pvars, cvars>>
    /\ GatewayUnused

\* lines 352-403 for the active model: metadata, URL and payload
BuildRequest ==
    /\ mres.phase = "configured"
    /\ LET info == get_model_info(mcfg.model_name, mcfg) IN
       IF info = None
       THEN mres' = [mres EXCEPT !.phase = "raised"]
       ELSE mres' = [mres EXCEPT
                       !.phase = "built",
                       !.info = info,
                       !.url = TargetUrl(info, mcfg.model_name),
                       !.payload = BuildPayload(info, mcfg.model_name, mreq.prompt,
                                                mreq.negative_prompt, mreq.width,
                                                mreq.height)]
    /\ UNCHANGED <<mname, mtext, mcfg, mreq, pvars, cvars>>
    /\ GatewayUnused

InitModel ==
    /\ mname \in ModelNames
    /\ mtext \in ExampleTexts
    /\ mcfg \in { Cfg(<<"cpk_A">>, <<>>, t) : t \in CustomTables }
    /\ mreq \in GenRequests
    /\ mres = NoResult
    /\ GatewayIdle
    /\ ParserIdle
    /\ CacheIdle

NextModel == LookupModel \/ ConfigureModel \/ BuildRequest

SpecModel == InitModel /\ [][NextModel]_vars

(***************************************************************************)
(* Properties of the running server (specification Spec)                   *)
(***************************************************************************)

Handled(r) == pc[r] # "idle"
Done(r) == pc[r] = "done"

\* the adapter call of r was made and failed
AdapterFailed(r) == Done(r) /\ up[r].calls > 0 /\ up[r].reply.kind # "none"
                    /\ ~(up[r].reply.kind = "status" /\ up[r].reply.status = 200)

Fields(r) == <<rq[r].prompt, rq[r].negative_prompt, rq[r].width, rq[r].height>>

\* the step in which request r returns its response
Responds(r) == pc[r] # "done" /\ pc'[r] = "done"

HitMakesNoUpstreamCall == \A r \in Reqs : rq[r].cached => up[r].calls = 0

HitServesStoredBytes ==
    \A r \in Reqs :
        (rq[r].cached /\ Responds(r)) =>
            /\ up'[r].calls = 0
            /\ resp'[r].status = 200
            /\ resp'[r].mimetype = "image/jpeg"
            /\ resp'[r].body = cache[rq[r].cache_file]

\* C1: a request whose cache file existed at the cache check issues no
\* upstream call, and its response is status 200 with the bytes of that file.
C1_CacheHitNeverCallsUpstream ==
    [](HitMakesNoUpstreamCall) /\ [][HitServesStoredBytes]_vars

C1_Witness ==
    \E r \in Reqs : rq[r].cached /\ Done(r) /\ resp[r].status = 200 /\ resp[r].body # <<>>

\* C2: two requests with the same prompt, negative prompt, width and height
\* get the same cache file name, whatever model name and API key were active
\* when each was handled.
C2_KeyDependsOnFieldsOnly ==
    \A r1, r2 \in Reqs :
        (Handled(r1) /\ Handled(r2) /\ Fields(r1) = Fields(r2))
            => rq[r1].cache_file = rq[r2].cache_file

C2_Witness ==
    \E r1, r2 \in Reqs :
        /\ Handled(r1) /\ Handled(r2)
        /\ Fields(r1) = Fields(r2)
        /\ rq[r1].model_name # rq[r2].model_name
        /\ rq[r1].api_key # rq[r2].api_key
        /\ rq[r1].model_name = ModelChroma
        /\ rq[r2].model_name = ModelHidream

\* C3: two requests that differ in one of the four fields never get the same
\* cache file name (the digest being collision-free, the digested text differs).
C3_DistinctFieldsDistinctKeys ==
    \A r1, r2 \in Reqs :
        (Handled(r1) /\ Handled(r2) /\ Fields(r1) # Fields(r2))
            => rq[r1].cache_file # rq[r2].cache_file

\* every file of the cache was opened by a request whose upstream call
\* returned 200
OnlySuccessWrites ==
    \A f \in DOMAIN cache :
        \E q \in Reqs :
            /\ rq[q].cache_file = f
            /\ pc[q] \in {"writing", "saved", "done"}
            /\ up[q].reply.kind = "status" /\ up[q].reply.status = 200

FailureKeepsCache ==
    \A r \in Reqs :
        (pc[r] = "generating" /\ Responds(r)) => cache' = cache

\* C4: the step that answers a failed adapter call leaves the cache as it
\* was, and a cache file exists only where some request's generation
\* succeeded, so the same request issued again misses the cache again.
C4_FailedGenerationWritesNothing ==
    [](OnlySuccessWrites) /\ [][FailureKeepsCache]_vars

C4_Witness ==
    \E r1, r2 \in Reqs :
        /\ r1 < r2
        /\ AdapterFailed(r1)
        /\ rq[r2].path = rq[r1].path
        /\ pc[r2] = "generating"
        /\ ~rq[r2].cached

CallerStatusOf(reply) ==
    CASE reply.kind = "timeout" -> {504}
      [] reply.kind = "connection" -> {503}
      [] reply.kind = "status" /\ reply.status \in {400, 401, 404, 429} -> {reply.status}
      [] reply.kind = "status" /\ reply.status = 500 -> {502, 500}
      [] OTHER -> {500}

\* C5 as stated: every adapter failure reaches the caller with the status of
\* the table (401, 404, 429, 400 passed on, 500 as 502 or 500, timeout 504,
\* connection failure 503, anything else 500) and a non-empty plain-text body.
C5_StatusTable ==
    \A r \in Reqs :
        AdapterFailed(r) =>
            /\ resp[r].status \in CallerStatusOf(up[r].reply)
            /\ resp[r].mimetype = "text/plain; charset=utf-8"
            /\ resp[r].text # <<>>

\* C5 amended: every adapter failure reaches the caller with status 500 and a
\* plain-text body, which is the exception's text: the adapter's non-empty
\* message for an upstream status, the library's text for a timeout or a
\* connection failure.
C5_EveryFailureIs500 ==
    \A r \in Reqs :
        AdapterFailed(r) =>
            /\ resp[r].status = 500
            /\ resp[r].mimetype = "text/plain; charset=utf-8"
            /\ resp[r].body = <<>>
            /\ resp[r].text = ErrorText(up[r].reply)
            /\ (up[r].reply.kind = "status" => resp[r].text # <<>>)

C5_Witness ==
    \E r1, r2 \in Reqs :
        /\ AdapterFailed(r1) /\ up[r1].reply.status = 429 /\ resp[r1].status = 500
        /\ AdapterFailed(r2) /\ up[r2].reply.kind = "timeout" /\ resp[r2].status = 500

\* the upstream call of r returned 200
Generated(r) == up[r].reply.kind = "status" /\ up[r].reply.status = 200

\* the step in which r answers 200 after a cache miss
RespondsGenerated(r) == Responds(r) /\ ~rq[r].cached /\ resp'[r].status = 200

\* another request has opened the same cache file for writing
OtherWriter(r) ==
    \E q \in Reqs \ {r} :
        /\ rq[q].cache_file = rq[r].cache_file
        /\ Generated(q)
        /\ pc[q] \in {"writing", "saved", "done"}

\* the first bytes of the file are the data
StartsWithData(files, name, data) ==
    /\ name \in DOMAIN files
    /\ Len(files[name]) >= Len(data)
    /\ SubSeq(files[name], 1, Len(data)) = data

SaveThenRespond ==
    \A r \in Reqs :
        /\ RespondsGenerated(r) =>
              /\ pc[r] = "saved"
              /\ Generated(r)
              /\ rq[r].cache_file \in DOMAIN cache
              /\ resp'[r].body = up[r].reply.content
              /\ ~OtherWriter(r) => cache[rq[r].cache_file] = up[r].reply.content
        /\ (pc[r] # "saved" /\ pc'[r] = "saved") =>
              /\ pc[r] = "writing"
              /\ StartsWithData(cache', rq[r].cache_file, up[r].reply.content)

\* C14: a request that missed the cache answers 200 only after its own write
\* of the upstream's bytes to its cache file has been made; the body of the
\* response is those bytes, and so is the file unless another request has
\* opened the same file.
C14_WritePrecedesResponse == [][SaveThenRespond]_vars

C14_Witness ==
    \E r \in Reqs :
        /\ Done(r) /\ ~rq[r].cached
        /\ resp[r].status = 200
        /\ resp[r].body = <<2, 3>>
        /\ cache[rq[r].cache_file] = <<2, 3>>

\* a request is between open(filepath, 'wb') and the end of f.write on the file
BeingWritten(f) == \E r \in Reqs : pc[r] = "writing" /\ rq[r].cache_file = f

\* C15: a cache file that exists and is not in the middle of a write exists
\* in the next state with the same bytes, whatever step any request takes.
C15_EntryImmutable ==
    [][\A f \in DOMAIN cache :
           ~BeingWritten(f) => (f \in DOMAIN cache' /\ cache'[f] = cache[f])]_vars

\* C16: the body of a response served from the cache is the complete content
\* of a 200 reply the upstream gave to some request for the same cache file.
C16_HitServesCompleteBody ==
    \A r \in Reqs :
        (rq[r].cached /\ Done(r)) =>
            \E q \in Reqs :
                /\ rq[q].cache_file = rq[r].cache_file
                /\ Generated(q)
                /\ resp[r].body = up[q].reply.content

\* C17: no request issues more than one upstream call, whatever the call
\* ended with.
C17_AtMostOneUpstreamCall == \A r \in Reqs : up[r].calls <= 1

C17_Witness ==
    \E r1, r2 \in Reqs :
        /\ AdapterFailed(r1) /\ up[r1].reply.kind = "timeout" /\ up[r1].calls = 1
        /\ Done(r2) /\ Generated(r2) /\ up[r2].calls = 1

\* the positions of a request and the moves between them: received, parsed
\* and checked against the cache in one step, then hit and response, or miss,
\* upstream call, reply, save and response, or miss and a failure answered
\* with an error
Transitions ==
    { <<"idle", "hit">>, <<"idle", "miss">>, <<"hit", "done">>,
      <<"miss", "generating">>, <<"miss", "done">>,
      <<"generating", "generated">>, <<"generating", "done">>,
      <<"generated", "writing">>, <<"writing", "saved">>, <<"saved", "done">> }

FollowsTransitions ==
    \A r \in Reqs : pc'[r] # pc[r] => <<pc[r], pc'[r]>> \in Transitions

\* a response is given once, in the step that ends the request, and it is
\* the image (200) or the error (500)
RespondsOnce ==
    \A r \in Reqs :
        /\ resp'[r] # resp[r] => (Responds(r) /\ resp[r] = NoResponse)
        /\ Responds(r) =>
              /\ resp'[r].status \in {200, 500}
              /\ resp'[r].status = 200 <=> pc[r] \in {"hit", "saved"}
              /\ resp'[r].status = 500 <=> pc[r] \in {"miss", "generating"}

\* C18: every request the server has received is answered, exactly once, with
\* the image or with the error, moving only along the transitions of the
\* request state machine; given that the upstream call returns or times out,
\* no request stays in the upstream call for ever, whatever the other
\* requests do.
C18_EveryRequestIsAnswered ==
    /\ \A r \in Reqs : (pc[r] # "idle") ~> (pc[r] = "done")
    /\ \A r \in Reqs : (pc[r] = "generating") ~> (pc[r] # "generating")
    /\ [][FollowsTransitions /\ RespondsOnce]_vars

C18_Witness ==
    \E r1, r2 \in Reqs :
        /\ r1 # r2
        /\ Done(r1) /\ resp[r1].status = 500 /\ up[r1].reply.kind = "timeout"
        /\ Done(r2) /\ resp[r2].status = 200 /\ ~rq[r2].cached
        /\ rq[r1].cache_file = rq[r2].cache_file

\* the active model has no metadata
NoProfile == get_model_info(config.model_name, config) = None

NoProfileMissIsError ==
    \A r \in Reqs :
        (pc[r] = "miss" /\ pc'[r] # "miss" /\ NoProfile) =>
            /\ pc'[r] = "done"
            /\ resp'[r].status = 500
            /\ resp'[r].mimetype = "text/plain; charset=utf-8"
            /\ resp'[r].text # <<>>
            /\ resp'[r].body = <<>>
            /\ up'[r].calls = 0
            /\ cache' = cache

NoProfileHitIsServed ==
    \A r \in Reqs :
        (pc[r] = "hit" /\ pc'[r] # "hit" /\ NoProfile) =>
            /\ pc'[r] = "done"
            /\ resp'[r] = ImageResponse(cache[rq[r].cache_file])
            /\ up'[r].calls = 0

\* C20: while the active model has no metadata, a request that missed the
\* cache is answered 500 with a non-empty plain-text body, without an upstream
\* call and without a change to the cache, and a request that hit the cache
\* is answered with the cached file.
C20_NoProfileIsError500 ==
    /\ [][NoProfileMissIsError /\ NoProfileHitIsServed]_vars
    /\ [](\A r \in Reqs :
            (Done(r) /\ rq[r].model_name = ModelGhost /\ ~rq[r].cached) =>
                (resp[r].status = 500 /\ up[r].calls = 0))

C20_Witness ==
    \E r1, r2 \in Reqs :
        /\ Done(r1) /\ rq[r1].model_name = ModelGhost /\ ~rq[r1].cached
        /\ resp[r1].status = 500 /\ up[r1].calls = 0
        /\ Done(r2) /\ rq[r2].model_name = ModelGhost /\ ~rq[r2].cached
        /\ rq[r2].path = rq[r1].path
        /\ cache = <<>>

\* a request served from the cache while the active model has no metadata
NoProfileHitReached ==
    \E r \in Reqs :
        /\ Done(r) /\ rq[r].model_name = ModelGhost /\ rq[r].cached
        /\ resp[r].status = 200 /\ resp[r].body # <<>>

(***************************************************************************)
(* Properties of the cache on its own (specification SpecCache)            *)
(***************************************************************************)

\* C6: put(key, bytes) followed by get(key) reports a hit whose content is
\* the bytes put, whatever the directory held before.
C6_PutGetRoundTrip ==
    tres.phase = "got" => (tres.hit /\ tres.content = tdata)

C6_Witness ==
    /\ tres.phase = "got"
    /\ tres.hit
    /\ tdata = <<1>>
    /\ tres.content = <<1>>

(***************************************************************************)
(* Properties of the parser on its own (specification SpecParse)           *)
(***************************************************************************)

Parsed == presult # None

\* the segments after the prompt, stripped
Segments ==
    LET rest == Tail(Split(unquote(ppath), "/")) IN
    [i \in 1..Len(rest) |-> Strip(rest[i])]

\* empty, whitespace-only or "-"
Skipped(seg) == seg = <<>> \/ seg = <<"-">>

\* <digits>x<digits> with a lower-case x
IsResolution(seg) ==
    LET sp == Split(seg, "x") IN Len(sp) = 2 /\ IsDigit(sp[1]) /\ IsDigit(sp[2])

\* <digits>x<digits> with x or X
IsResolutionAnyCase(seg) == IsResolution(Lower(seg))

ResolutionOf(seg) ==
    LET sp == Split(Lower(seg), "x") IN <<DecimalOf(sp[1]), DecimalOf(sp[2])>>

Least(S) == CHOOSE i \in S : \A j \in S : i <= j
Greatest(S) == CHOOSE i \in S : \A j \in S : j <= i

ResolutionIdx == {i \in DOMAIN Segments : IsResolution(Segments[i])}
ResolutionAnyCaseIdx == {i \in DOMAIN Segments : IsResolutionAnyCase(Segments[i])}

\* the segments that stand for a negative prompt: not skipped, no resolution
CandidateIdx ==
    {i \in DOMAIN Segments : ~Skipped(Segments[i]) /\ ~IsResolutionAnyCase(Segments[i])}

FirstCandidate ==
    IF CandidateIdx = {} THEN <<>> ELSE Segments[Least(CandidateIdx)]

Size == <<presult.width, presult.height>>

\* C7: whatever the order of the segments, width and height are those of a
\* resolution segment (the default when there is none), the negative prompt is
\* the first segment that is neither skipped nor a resolution, and later
\* candidates and skipped segments change nothing.
C7_ClassifiedIndependentOfOrder ==
    Parsed =>
        /\ presult.negative_prompt = FirstCandidate
        /\ IF ResolutionAnyCaseIdx = {}
           THEN Size = <<DefaultWidth, DefaultHeight>>
           ELSE \E i \in ResolutionAnyCaseIdx : Size = ResolutionOf(Segments[i])

\* C8: in a path whose segments are all skipped or <digits>x<digits> with x or
\* X, the last such segment sets width and height and the negative prompt
\* stays empty.
C8_ResolutionAnyCase ==
    (Parsed /\ CandidateIdx = {} /\ ResolutionAnyCaseIdx # {}) =>
        /\ Size = ResolutionOf(Segments[Greatest(ResolutionAnyCaseIdx)])
        /\ presult.negative_prompt = <<>>

\* C9: width and height are those of the last well-formed resolution segment,
\* 1024 by 1024 when there is none: a segment that fails the numeric
\* conversion changes neither.
C9_MalformedResolutionChangesNothing ==
    Parsed =>
        Size = IF ResolutionIdx = {} THEN <<DefaultWidth, DefaultHeight>>
               ELSE ResolutionOf(Segments[Greatest(ResolutionIdx)])

\* C10 as stated: width >= 1 and height >= 1 for every path.
C10_PositiveSize == Parsed => (presult.width >= 1 /\ presult.height >= 1)

\* C10 amended: width >= 0 and height >= 0 for every path; a side is 0 only
\* when a segment of the path gives 0 for it.
C10_NonNegativeSize ==
    Parsed =>
        /\ presult.width >= 0
        /\ presult.height >= 0
        /\ (presult.width = 0 =>
              \E i \in DOMAIN Segments :
                  Contains(Segments[i], "x") /\ Head(Segments[i]) = "0")
        /\ (presult.height = 0 =>
              \E i \in ResolutionIdx : ResolutionOf(Segments[i])[2] = 0)

C10_Witness ==
    Parsed /\ presult.width = 0 /\ presult.height = 1

(***************************************************************************)
(* Properties of model choice and payload (specification SpecModel)        *)
(***************************************************************************)

Built == mres.phase = "built"

\* the payload has the key
Sent(key) == key \in DOMAIN mres.payload

NativeFields ==
    {"prompt"}
    \cup (IF mres.info.supports_negative /\ mreq.negative_prompt # <<>>
          THEN {"negative_prompt"} ELSE {})
    \cup (CASE mres.info.resolution_format = "none" -> {}
            [] mres.info.resolution_format = "standard" -> {"width", "height"}
            [] mres.info.resolution_format = "string" -> {"resolution"})

NativeFieldValues ==
    /\ mres.payload.prompt = mreq.prompt
    /\ Sent("negative_prompt") => mres.payload.negative_prompt = mreq.negative_prompt
    /\ Sent("width") => mres.payload.width = mreq.width
    /\ Sent("height") => mres.payload.height = mreq.height
    /\ Sent("resolution") =>
           mres.payload.resolution = IntStr(mreq.width) \o <<"x">> \o IntStr(mreq.height)

\* C12 as stated: for metadata of type native the payload's fields are
\* exactly prompt, negative_prompt when supported and non-empty, and the
\* resolution in the form of resolution_format; no other field is sent.
C12_NativeFieldSet ==
    (Built /\ mres.info.type = "native") =>
        /\ DOMAIN mres.payload = NativeFields
        /\ NativeFieldValues

\* C12 amended: for metadata of type native the payload's fields are exactly
\* prompt, negative_prompt when supported and non-empty, the resolution in the
\* form of resolution_format, and always num_inference_steps = 20 and
\* guidance_scale = 7.5.
C12_NativeFieldsAndFixedParameters ==
    (Built /\ mres.info.type = "native") =>
        /\ DOMAIN mres.payload = NativeFields \cup {"num_inference_steps", "guidance_scale"}
        /\ NativeFieldValues
        /\ mres.payload.num_inference_steps = 20
        /\ mres.payload.guidance_scale = <<"7", ".", "5">>

C12_Witness ==
    /\ Built
    /\ mres.info.type = "native"
    /\ mres.info.resolution_format = "string"
    /\ mres.info.supports_negative
    /\ mreq.negative_prompt # <<>>
    /\ DOMAIN mres.payload =
           {"prompt", "negative_prompt", "resolution", "num_inference_steps", "guidance_scale"}
    /\ mres.payload.resolution = <<"5", "1", "2", "x", "5", "1", "2">>

\* the entries of a table
Entries(table) == {table[i] : i \in 1..Len(table)}

\* C13: the lookup gives the built-in entry of that exact name, otherwise a
\* built-in entry whose name equals it up to letter case, otherwise the
\* user's entry of that exact name, otherwise nothing; a name that equals a
\* built-in name up to letter case never gets a user's entry, and the empty
\* name gets nothing.
C13_LookupOrder ==
    mres.phase = "looked" =>
        LET exact == {e \in Entries(KNOWN_MODELS) : e[1] = mname}
            folded == {e \in Entries(KNOWN_MODELS) : Lower(e[1]) = Lower(mname)}
            custom == {e \in Entries(mcfg.custom_models) : e[1] = mname}
        IN /\ mname = <<>> => mres.found = None
           /\ (mname # <<>> /\ exact # {}) => \E e \in exact : mres.found = e[2]
           /\ (mname # <<>> /\ exact = {} /\ folded # {}) =>
                  \E e \in folded : mres.found = e[2]
           /\ (mname # <<>> /\ folded = {} /\ custom # {}) =>
                  \E e \in custom : mres.found = e[2]
           /\ (folded = {} /\ custom = {}) => mres.found = None
           /\ folded # {} => \A e \in Entries(mcfg.custom_models) : mres.found # e[2]

C13_Witness ==
    /\ mres.phase = "looked"
    /\ mname = ModelChromaCap
    /\ \E e \in Entries(mcfg.custom_models) : e[1] = ModelChromaCap /\ e[2] = MyInfo
    /\ mres.found = UnifiedInfo

\* C19: metadata learnt from an example text has type unified or native;
\* what the text does not show is off (no negative prompt, no resolution),
\* and unified metadata supports the negative prompt and has the standard
\* width/height resolution.
C19_InferredProfileWellFormed ==
    mres.new_info # None =>
        /\ mres.new_info.type \in {"unified", "native"}
        /\ (mres.new_info.type # "unified" /\ ~HasSub(mtext, TxtNegative)) =>
               ~mres.new_info.supports_negative
        /\ (/\ mres.new_info.type # "unified"
            /\ ~HasSub(mtext, TxtResolution)
            /\ ~(HasSub(mtext, TxtWidth) /\ HasSub(mtext, TxtHeight))) =>
               mres.new_info.resolution_format = "none"
        /\ mres.new_info.type = "unified" =>
               /\ mres.new_info.supports_negative
               /\ mres.new_info.resolution_format = "standard"

====
